---------------------------- MODULE Spec2Model ----------------------------
(***************************************************************************)
(* Model of the content analysis engine of the release documentation      *)
(* viewer: ContentAnalyzer.analyze_release_content (content_analyzer.py)  *)
(* and the merge-request listing it calls (mr_utils.py).                   *)
(*                                                                         *)
(* Text is a sequence of one-character strings, so every extractor is     *)
(* computed on characters, as the Python code computes it.  The regular   *)
(* expressions of the source are translated one by one into matchers that *)
(* return the end of the match the backtracking engine would find.        *)
(***************************************************************************)
EXTENDS Integers, Sequences, FiniteSets, TLC

VARIABLES
    content_given,    \* FALSE: the caller passed None as the document text
    content,          \* the document text (characters)
    release_version,  \* the version label (characters)
    store_up,         \* whether the object store can be reached
    blobs,            \* file names under releases/<version>/mr_docs/
    hash_seed,        \* the process's string hash seed (orders a set of str)
    today,            \* the current date, [year, month, day]
    pc,               \* "ready", then "returned" or "raised"
    analysis,         \* the record returned by the last call
    called,           \* the helpers the last call invoked
    previous          \* the record returned by the call before, when kept

vars == <<content_given, content, release_version, store_up, blobs,
          hash_seed, today, pc, analysis, called, previous>>

---------------------------------------------------------------------------
(* Characters and strings                                                  *)

UpperAlpha == <<"A","B","C","D","E","F","G","H","I","J","K","L","M","N","O","P","Q","R","S","T","U","V","W","X","Y","Z">>
LowerAlpha == <<"a","b","c","d","e","f","g","h","i","j","k","l","m","n","o","p","q","r","s","t","u","v","w","x","y","z">>
Digits == {"0", "1", "2", "3", "4", "5", "6", "7", "8", "9"}
UpperSet == {UpperAlpha[i] : i \in 1..Len(UpperAlpha)}
LowerSet == {LowerAlpha[i] : i \in 1..Len(LowerAlpha)}

\* str.lower() and str.upper(), per character
ToLower == [c \in UpperSet |-> LowerAlpha[CHOOSE i \in 1..Len(UpperAlpha) : UpperAlpha[i] = c]]
ToUpper == [c \in LowerSet |-> UpperAlpha[CHOOSE i \in 1..Len(LowerAlpha) : LowerAlpha[i] = c]]
LowerChar(c) == IF c \in UpperSet THEN ToLower[c] ELSE c
UpperChar(c) == IF c \in LowerSet THEN ToUpper[c] ELSE c
Lower(s) == [i \in 1..Len(s) |-> LowerChar(s[i])]
Upper(s) == [i \in 1..Len(s) |-> UpperChar(s[i])]

\* \s of re and the characters str.strip() and str.split() treat as blank
SpaceChars == {" ", "\n", "\t", "\r", "\f"}
\* \w of re, and [-_\w]
WordChars == UpperSet \cup LowerSet \cup Digits \cup {"_"}
NameChars == WordChars \cup {"-"}
\* [a-f0-9]
HexChars == Digits \cup {"a", "b", "c", "d", "e", "f"}
IsSpace(c) == c \in SpaceChars
IsDigit(c) == c \in Digits
IsWordChar(c) == c \in WordChars
IsLetter(c) == c \in UpperSet \/ c \in LowerSet

Min(S) == CHOOSE x \in S : \A y \in S : x <= y
Max(S) == CHOOSE x \in S : \A y \in S : y <= x
Max2(a, b) == IF a >= b THEN a ELSE b

\* s[i:] and s[i:j] of Python, with 1-based i and exclusive j
From(s, i) == SubSeq(s, i, Len(s))
Slice(s, i, j) == SubSeq(s, i, j - 1)

\* whether w occurs in s at index i
MatchAt(s, i, w) ==
    /\ i >= 1
    /\ i + Len(w) - 1 <= Len(s)
    /\ \A k \in 1..Len(w) : s[i + k - 1] = w[k]

\* w in s
Contains(s, w) == \E i \in 1..(Len(s) - Len(w) + 1) : MatchAt(s, i, w)

\* s.startswith(w)
StartsWith(s, w) == MatchAt(s, 1, w)

\* the end of a greedy run C* started at i: the first index >= i whose
\* character is not in C
RECURSIVE SkipIn(_, _, _)
SkipIn(C, s, i) == IF i >= 1 /\ i <= Len(s) /\ s[i] \in C THEN SkipIn(C, s, i + 1) ELSE i

\* the same from the right: the last index <= i whose character is not in C
RECURSIVE SkipBack(_, _, _)
SkipBack(C, s, i) == IF i >= 1 /\ s[i] \in C THEN SkipBack(C, s, i - 1) ELSE i

\* greedy \s*, \d*, #*
SkipSpace(s, i) == SkipIn(SpaceChars, s, i)
SkipDigits(s, i) == SkipIn(Digits, s, i)
SkipHashes(s, i) == SkipIn({"#"}, s, i)

\* str.strip()
Strip(s) == SubSeq(s, SkipSpace(s, 1), SkipBack(SpaceChars, s, Len(s)))

\* str.split('\n'): the lines of s, at least one
RECURSIVE SplitLines(_)
SplitLines(s) ==
    LET nl == {i \in 1..Len(s) : s[i] = "\n"}
    IN  IF nl = {} THEN <<s>>
        ELSE <<SubSeq(s, 1, Min(nl) - 1)>> \o SplitLines(From(s, Min(nl) + 1))

\* len(str.split()): the maximal runs of non-blank characters
SplitWords(s) ==
    {i \in 1..Len(s) : ~IsSpace(s[i]) /\ (i = 1 \/ IsSpace(s[i - 1]))}

---------------------------------------------------------------------------
(* Title and summary (content_analyzer.py 51-70)                           *)

DefaultTitle == <<"R","e","l","e","a","s","e"," ","D","o","c","u","m","e","n","t","a","t","i","o","n">>
DefaultSummary == <<"T","h","i","s"," ","r","e","l","e","a","s","e"," ","i","n","t","r","o","d","u","c","e","s"," ","e","n","h","a","n","c","e","m","e","n","t","s"," ","t","o"," ","t","h","e"," ","s","y","s","t","e","m"," ","f","u","n","c","t","i","o","n","a","l","i","t","y"," ","a","n","d"," ","u","s","e","r"," ","e","x","p","e","r","i","e","n","c","e",".">>
SummaryMinLen == 50

\* re.sub(r'^#+\s*', '', s): drop the leading run of '#' and the blanks after it
StripHeadingPrefix(s) ==
    LET h == SkipHashes(s, 1)
    IN  IF h = 1 THEN s ELSE From(s, SkipSpace(s, h))

IsTitleLine(line) ==
    StartsWith(Strip(line), <<"#">>) /\ Len(Strip(line)) > 1

extract_title(text) ==
    LET lines == SplitLines(text)
        hits == {i \in 1..Len(lines) : IsTitleLine(lines[i])}
    IN  IF hits = {} THEN DefaultTitle
        ELSE StripHeadingPrefix(Strip(lines[Min(hits)]))

SummaryLineInclusive(line) ==
    LET stripped == Strip(line)
    IN  /\ Len(stripped) >= SummaryMinLen
        /\ ~StartsWith(stripped, <<"#">>)
        /\ ~StartsWith(stripped, <<"-">>)
        /\ ~StartsWith(stripped, <<"*">>)
        /\ ~StartsWith(stripped, <<">">>)
IsSummaryLine(line) ==
    LET stripped == Strip(line)
    IN  /\ Len(stripped) > SummaryMinLen
        /\ ~StartsWith(stripped, <<"#">>)
        /\ ~StartsWith(stripped, <<"-">>)
        /\ ~StartsWith(stripped, <<"*">>)
        /\ ~StartsWith(stripped, <<">">>)

extract_summary(text) ==
    LET lines == SplitLines(text)
        hits == {i \in 1..Len(lines) : IsSummaryLine(lines[i])}
    IN  IF hits = {} THEN DefaultSummary
        ELSE Strip(lines[Min(hits)])

---------------------------------------------------------------------------
(* Count extractors (content_analyzer.py 72-139)                           *)

\* The four feature patterns of _count_features.  verb, then one optional
\* character of opt, then \s+, then (gap: .*? on one line) one of nouns.
FeaturePatterns == <<
    [kind |-> "feature", verb |-> <<"n","e","w">>, opt |-> {}, gap |-> FALSE,
     nouns |-> {<<"f","e","a","t","u","r","e">>, <<"f","u","n","c","t","i","o","n","a","l","i","t","y">>, <<"c","a","p","a","b","i","l","i","t","y">>, <<"m","o","d","u","l","e">>}],
    [kind |-> "feature", verb |-> <<"i","n","t","r","o","d","u","c","e">>, opt |-> {"s", "d"}, gap |-> TRUE,
     nouns |-> {<<"f","e","a","t","u","r","e">>, <<"f","u","n","c","t","i","o","n","a","l","i","t","y">>, <<"c","a","p","a","b","i","l","i","t","y">>}],
    [kind |-> "feature", verb |-> <<"a","d","d">>, opt |-> {"e", "d"}, gap |-> TRUE,
     nouns |-> {<<"f","e","a","t","u","r","e">>, <<"f","u","n","c","t","i","o","n","a","l","i","t","y">>, <<"c","a","p","a","b","i","l","i","t","y">>}],
    [kind |-> "feature", verb |-> <<"i","m","p","l","e","m","e","n","t">>, opt |-> {"e", "d"}, gap |-> TRUE,
     nouns |-> {<<"f","e","a","t","u","r","e">>, <<"f","u","n","c","t","i","o","n","a","l","i","t","y">>, <<"c","a","p","a","b","i","l","i","t","y">>}] >>

\* [-*...] of the bullet pattern: the source file holds the bullet sign
\* mis-encoded as three characters, named here by their code points
BulletChars == {"-", "*", "U+00E2", "U+20AC", "U+00A2"}
BulletPattern == [kind |-> "bullet"]
NumberedPattern == [kind |-> "numbered"]

FloorFeatures == 1

\* End (exclusive) of the match of a feature pattern that starts at i, 0 when
\* there is none.  The optional character is taken when present (the verb must
\* otherwise be followed by a blank); \s+ takes the whole run of blanks; the
\* lazy .*? stops at the first noun and never crosses a line break.
FeatureMatchEnd(p, s, i) ==
    IF ~MatchAt(s, i, p.verb) THEN 0
    ELSE LET a == i + Len(p.verb)
             b == IF a <= Len(s) /\ s[a] \in p.opt THEN a + 1 ELSE a
             q == SkipSpace(s, b)
             nls == {j \in q..Len(s) : s[j] = "\n"}
             stop == IF p.gap THEN (IF nls = {} THEN Len(s) ELSE Min(nls) - 1)
                     ELSE q
             at == {j \in q..stop : \E n \in p.nouns : MatchAt(s, j, n)}
         IN  IF q = b \/ at = {} THEN 0
             ELSE Min(at) + Len(CHOOSE n \in p.nouns : MatchAt(s, Min(at), n))

\* r'\n\s*[-*...]\s+'
BulletMatchEnd(s, i) ==
    IF i > Len(s) \/ s[i] # "\n" THEN 0
    ELSE LET q == SkipSpace(s, i + 1)
             r == SkipSpace(s, q + 1)
         IN  IF q <= Len(s) /\ s[q] \in BulletChars /\ r > q + 1 THEN r ELSE 0

\* r'\n\s*\d+\.\s+'
NumberedMatchEnd(s, i) ==
    IF i > Len(s) \/ s[i] # "\n" THEN 0
    ELSE LET q == SkipSpace(s, i + 1)
             d == SkipDigits(s, q)
             r == SkipSpace(s, d + 1)
         IN  IF d > q /\ d <= Len(s) /\ s[d] = "." /\ r > d + 1 THEN r ELSE 0

PatternEnd(p, s, i) ==
    CASE p.kind = "feature" -> FeatureMatchEnd(p, s, i)
      [] p.kind = "bullet" -> BulletMatchEnd(s, i)
      [] p.kind = "numbered" -> NumberedMatchEnd(s, i)

\* len(re.findall(p, s[i:])): leftmost matches, none overlapping
RECURSIVE CountMatches(_, _, _)
CountMatches(p, s, i) ==
    LET starts == {j \in i..Len(s) : PatternEnd(p, s, j) > 0}
    IN  IF starts = {} THEN 0
        ELSE 1 + CountMatches(p, s, PatternEnd(p, s, Min(starts)))

\* re.search(rf'#+\s*{name}', s).end(), 0 when there is no match: a run of
\* '#', blanks, then the name, anywhere in the text
HeaderEndAt(s, j, name) ==
    LET q == SkipSpace(s, SkipHashes(s, j))
    IN  IF s[j] = "#" /\ MatchAt(s, q, name) THEN q + Len(name) ELSE 0

SectionStart(s, name) ==
    LET starts == {j \in 1..Len(s) : HeaderEndAt(s, j, name) > 0}
    IN  IF starts = {} THEN 0 ELSE HeaderEndAt(s, Min(starts), name)

\* re.search(r'\n#+\s', s[start:]): index of the line break, 0 when none
IsNextHeader(s, j) ==
    LET h == SkipHashes(s, j + 1)
    IN  s[j] = "\n" /\ h > j + 1 /\ h <= Len(s) /\ IsSpace(s[h])

SectionContent(s, start) ==
    LET heads == {j \in start..Len(s) : IsNextHeader(s, j)}
    IN  IF heads = {} THEN From(s, start) ELSE Slice(s, start, Min(heads))

RECURSIVE SumSections(_, _, _)
SumSections(lower, names, k) ==
    IF k > Len(names) THEN 0
    ELSE LET start == SectionStart(lower, names[k])
             section == SectionContent(lower, start)
             here == IF start = 0 THEN 0
                     ELSE CountMatches(BulletPattern, section, 1)
                          + CountMatches(NumberedPattern, section, 1)
         IN  here + SumSections(lower, names, k + 1)

count_section_items(text, section_names) ==
    SumSections(Lower(text), section_names, 1)

RECURSIVE SumKeywordMatches(_, _)
SumKeywordMatches(lower, k) ==
    IF k > Len(FeaturePatterns) THEN 0
    ELSE CountMatches(FeaturePatterns[k], lower, 1) + SumKeywordMatches(lower, k + 1)

FeaturesFloorNone(count) == count
FeaturesFloor(count) == Max2(count, FloorFeatures)

count_features(text) ==
    FeaturesFloor(SumKeywordMatches(Lower(text), 1)
        + count_section_items(text, <<<<"n","e","w"," ","f","e","a","t","u","r","e","s">>, <<"f","e","a","t","u","r","e","s">>, <<"a","d","d","i","t","i","o","n","s">>>>))

\* \bword\b at index i
WordAt(s, i, w) ==
    /\ MatchAt(s, i, w)
    /\ (i = 1 \/ ~IsWordChar(s[i - 1]))
    /\ (i + Len(w) > Len(s) \/ ~IsWordChar(s[i + Len(w)]))

\* len(re.findall(rf'\b({a|b|...})\b', s)): whole words cannot overlap
CountWords(s, words) ==
    Cardinality({i \in 1..Len(s) : \E w \in words : WordAt(s, i, w)})

ImprovementKeywords ==
    {<<"i","m","p","r","o","v","e","m","e","n","t">>, <<"e","n","h","a","n","c","e","m","e","n","t">>, <<"o","p","t","i","m","i","z","e">>, <<"p","e","r","f","o","r","m","a","n","c","e">>, <<"u","p","g","r","a","d","e">>, <<"r","e","f","a","c","t","o","r">>}
ChangeKeywords ==
    {<<"c","h","a","n","g","e">>, <<"u","p","d","a","t","e">>, <<"m","o","d","i","f","y">>, <<"f","i","x">>, <<"b","u","g">>, <<"i","s","s","u","e">>, <<"p","a","t","c","h">>}

count_improvements(text) ==
    CountWords(Lower(text), ImprovementKeywords)
    + count_section_items(text, <<<<"i","m","p","r","o","v","e","m","e","n","t","s">>, <<"e","n","h","a","n","c","e","m","e","n","t","s">>, <<"o","p","t","i","m","i","z","a","t","i","o","n","s">>>>)

count_changes(text) ==
    CountWords(Lower(text), ChangeKeywords)
    + count_section_items(text, <<<<"c","h","a","n","g","e","s">>, <<"u","p","d","a","t","e","s">>, <<"f","i","x","e","s">>, <<"b","u","g"," ","f","i","x","e","s">>>>)

---------------------------------------------------------------------------
(* Project name (content_analyzer.py 141-158)                              *)

DefaultProjectName == <<"L","i","b","r","a","r","y"," ","M","a","n","a","g","e","m","e","n","t"," ","S","y","s","t","e","m">>
ProjectNouns == {<<"p","r","o","j","e","c","t">>, <<"s","y","s","t","e","m">>, <<"p","l","a","t","f","o","r","m">>}
ProjectLabels == {<<"p","r","o","j","e","c","t",":">>, <<"s","y","s","t","e","m",":">>}
NoMatch == [start |-> 0, stop |-> 0]

\* r'(library\s+management\s+system)' at j: the capture's bounds
LibraryAt(s, j) ==
    LET a == j + Len(<<"l","i","b","r","a","r","y">>)
        q == SkipSpace(s, a)
        b == q + Len(<<"m","a","n","a","g","e","m","e","n","t">>)
        r == SkipSpace(s, b)
    IN  IF /\ MatchAt(s, j, <<"l","i","b","r","a","r","y">>)
           /\ q > a /\ MatchAt(s, q, <<"m","a","n","a","g","e","m","e","n","t">>)
           /\ r > b /\ MatchAt(s, r, <<"s","y","s","t","e","m">>)
        THEN [start |-> j, stop |-> r + Len(<<"s","y","s","t","e","m">>)]
        ELSE NoMatch

\* r'(demo-project)' at j
DemoAt(s, j) ==
    IF MatchAt(s, j, <<"d","e","m","o","-","p","r","o","j","e","c","t">>)
    THEN [start |-> j, stop |-> j + Len(<<"d","e","m","o","-","p","r","o","j","e","c","t">>)]
    ELSE NoMatch

\* r'(\w+[-_]\w+)\s+(?:project|system|platform)' at j.  The capture runs from
\* j to the blank that ends it; it holds word characters around one '-', or
\* word characters only with a '_' that is neither its first nor its last.
CompoundAt(s, j) ==
    LET r == SkipIn(NameChars, s, j)
        hyphens == {k \in j..(r - 1) : s[k] = "-"}
        inner == {k \in (j + 1)..(r - 2) : s[k] = "-" \/ s[k] = "_"}
        q == SkipSpace(s, r)
    IN  IF /\ IsWordChar(s[j])
           /\ q > r
           /\ \E n \in ProjectNouns : MatchAt(s, q, n)
           /\ Cardinality(hyphens) <= 1
           /\ hyphens \subseteq inner
           /\ inner # {}
           /\ (hyphens = {} => \E k \in inner : s[k] = "_")
        THEN [start |-> j, stop |-> r]
        ELSE NoMatch

\* r'(?:project|system):\s*(\w+[-_\w]*)' at j
LabelAt(s, j) ==
    LET labels == {l \in ProjectLabels : MatchAt(s, j, l)}
        q == SkipSpace(s, j + Len(CHOOSE l \in labels : TRUE))
        r == SkipIn(NameChars, s, q)
    IN  IF labels # {} /\ q <= Len(s) /\ IsWordChar(s[q])
        THEN [start |-> q, stop |-> r]
        ELSE NoMatch

ProjectPatternAt(k, s, j) ==
    CASE k = 1 -> LibraryAt(s, j)
      [] k = 2 -> DemoAt(s, j)
      [] k = 3 -> CompoundAt(s, j)
      [] k = 4 -> LabelAt(s, j)

\* re.search(patterns[k], s): the capture of the leftmost match
ProjectSearch(k, s) ==
    LET starts == {j \in 1..Len(s) : ProjectPatternAt(k, s, j).start > 0}
    IN  IF starts = {} THEN NoMatch ELSE ProjectPatternAt(k, s, Min(starts))

\* str.title() of a lowercased string: a letter after a non-letter is raised
Title(s) ==
    [i \in 1..Len(s) |->
        IF IsLetter(s[i]) /\ (i = 1 \/ ~IsLetter(s[i - 1]))
        THEN UpperChar(s[i]) ELSE LowerChar(s[i])]

\* .replace('_', ' ').replace('-', ' ')
SeparatorsToSpaces(s) ==
    [i \in 1..Len(s) |-> IF s[i] = "_" \/ s[i] = "-" THEN " " ELSE s[i]]

\* the first pattern, in the order of the list, that matches anywhere
RECURSIVE FirstProjectMatch(_, _)
FirstProjectMatch(k, lower) ==
    IF k > 4 THEN NoMatch
    ELSE LET m == ProjectSearch(k, lower)
         IN  IF m.start > 0 THEN m ELSE FirstProjectMatch(k + 1, lower)

\* the pattern whose match lies first in the text, instead of the first
\* pattern of the list that matches
EarliestProjectMatch(text) ==
    LET lower == Lower(text)
        hits == {k \in 1..4 : ProjectSearch(k, lower).start > 0}
        first == CHOOSE k \in hits :
                    \A h \in hits :
                        ProjectSearch(k, lower).start <= ProjectSearch(h, lower).start
        m == ProjectSearch(first, lower)
    IN  IF hits = {} THEN DefaultProjectName
        ELSE SeparatorsToSpaces(Title(Slice(lower, m.start, m.stop)))
extract_project_name(text) ==
    LET lower == Lower(text)
        m == FirstProjectMatch(1, lower)
    IN  IF m.start = 0 THEN DefaultProjectName
        ELSE SeparatorsToSpaces(Title(Slice(lower, m.start, m.stop)))

---------------------------------------------------------------------------
(* Release date (content_analyzer.py 160-175)                              *)

MonthNames == <<<<"J","a","n","u","a","r","y">>, <<"F","e","b","r","u","a","r","y">>, <<"M","a","r","c","h">>, <<"A","p","r","i","l">>, <<"M","a","y">>, <<"J","u","n","e">>,
                <<"J","u","l","y">>, <<"A","u","g","u","s","t">>, <<"S","e","p","t","e","m","b","e","r">>, <<"O","c","t","o","b","e","r">>, <<"N","o","v","e","m","b","e","r">>,
                <<"D","e","c","e","m","b","e","r">>>>
LowerMonthNames == [m \in 1..Len(MonthNames) |-> Lower(MonthNames[m])]
DateSeparators == {"/", "-"}
DigitChars == <<"0","1","2","3","4","5","6","7","8","9">>

\* \d{4} at a
FourDigits(s, a) ==
    a >= 1 /\ a + 3 <= Len(s) /\ \A k \in a..(a + 3) : IsDigit(s[k])

\* the length (1 or 2) of the \d{1,2} at a that a date separator follows, 0
\* when there is none
DayOrMonth(s, a) ==
    IF a + 1 <= Len(s) /\ IsDigit(s[a]) /\ s[a + 1] \in DateSeparators THEN 1
    ELSE IF /\ a + 2 <= Len(s) /\ IsDigit(s[a]) /\ IsDigit(s[a + 1])
            /\ s[a + 2] \in DateSeparators THEN 2
    ELSE 0

\* month name, \s+, \d{1,2}, an optional comma, \s+, \d{4}; the month is
\* matched ignoring case, on the lowered text.  End of the match at j, 0 when
\* none.
MonthDateEnd(s, lower, j) ==
    LET months == {m \in 1..Len(MonthNames) : MatchAt(lower, j, LowerMonthNames[m])}
        a == j + Len(MonthNames[CHOOSE m \in months : TRUE])
        q == SkipSpace(s, a)
        d == SkipDigits(s, q)
        c == IF d <= Len(s) /\ s[d] = "," THEN d + 1 ELSE d
        r == SkipSpace(s, c)
    IN  IF /\ months # {}
           /\ q > a
           /\ d - q \in {1, 2}
           /\ r > c
           /\ FourDigits(s, r)
        THEN r + 4 ELSE 0

\* r'\d{1,2}[/-]\d{1,2}[/-]\d{4}' at j
DayFirstEnd(s, j) ==
    LET n1 == DayOrMonth(s, j)
        b == j + n1 + 1
        n2 == DayOrMonth(s, b)
        c == b + n2 + 1
    IN  IF n1 > 0 /\ n2 > 0 /\ FourDigits(s, c) THEN c + 4 ELSE 0

\* r'\d{4}[/-]\d{1,2}[/-]\d{1,2}' at j: the last \d{1,2} takes two digits
\* when it can
YearFirstEnd(s, j) ==
    LET b == j + 5
        n2 == DayOrMonth(s, b)
        c == b + n2 + 1
    IN  IF /\ FourDigits(s, j) /\ j + 4 <= Len(s) /\ s[j + 4] \in DateSeparators
           /\ n2 > 0 /\ c <= Len(s) /\ IsDigit(s[c])
        THEN (IF c + 1 <= Len(s) /\ IsDigit(s[c + 1]) THEN c + 2 ELSE c + 1)
        ELSE 0

DatePatternEnd(k, s, lower, j) ==
    CASE k = 1 -> MonthDateEnd(s, lower, j)
      [] k = 2 -> DayFirstEnd(s, j)
      [] k = 3 -> YearFirstEnd(s, j)

\* re.search(date_patterns[k], s, re.IGNORECASE).group(0), <<>> when none
DateSearch(k, s) ==
    LET lower == Lower(s)
        starts == {j \in 1..Len(s) : DatePatternEnd(k, s, lower, j) > 0}
    IN  IF starts = {} THEN <<>>
        ELSE Slice(s, Min(starts), DatePatternEnd(k, s, lower, Min(starts)))

TwoDigits(n) == <<DigitChars[((n \div 10) % 10) + 1], DigitChars[(n % 10) + 1]>>
FourDigitYear(n) == TwoDigits(n \div 100) \o TwoDigits(n % 100)

\* datetime.strftime("%B %d, %Y")
FormatDate(d) ==
    MonthNames[d.month] \o <<" ">> \o TwoDigits(d.day) \o <<","," ">> \o FourDigitYear(d.year)

\* the match of the first pattern, in the order of the list, that matches
RECURSIVE FirstDateMatch(_, _)
FirstDateMatch(k, text) ==
    IF k > 3 THEN <<>>
    ELSE LET m == DateSearch(k, text)
         IN  IF m # <<>> THEN m ELSE FirstDateMatch(k + 1, text)

\* the date that lies first in the text, whatever its pattern
EarliestDateMatch(text, now) ==
    LET IndexOf(s, w) == Min({i \in 1..Len(s) : MatchAt(s, i, w)})
        hits == {k \in 1..3 : DateSearch(k, text) # <<>>}
        first == CHOOSE k \in hits :
                    \A h \in hits :
                        IndexOf(text, DateSearch(k, text)) <= IndexOf(text, DateSearch(h, text))
    IN  IF hits = {} THEN FormatDate(now) ELSE DateSearch(first, text)
extract_release_date(text, now) ==
    LET m == FirstDateMatch(1, text)
    IN  IF m = <<>> THEN FormatDate(now) ELSE m

---------------------------------------------------------------------------
(* Technical highlights and complexity (content_analyzer.py 177-214)       *)

\* project_keywords['technical']
TechnicalKeywords ==
    <<<<"a","p","i">>, <<"d","a","t","a","b","a","s","e">>, <<"s","e","r","v","i","c","e">>, <<"c","l","a","s","s">>, <<"m","e","t","h","o","d">>, <<"f","u","n","c","t","i","o","n">>>>
\* code_patterns: three \b(...)\b groups
CodePatterns == <<
    <<<<"c","l","a","s","s">>, <<"m","e","t","h","o","d">>, <<"f","u","n","c","t","i","o","n">>, <<"a","p","i">>, <<"e","n","d","p","o","i","n","t">>, <<"s","e","r","v","i","c","e">>>>,
    <<<<"d","a","t","a","b","a","s","e">>, <<"s","q","l">>, <<"j","s","o","n">>, <<"x","m","l">>, <<"r","e","s","t">>>>,
    <<<<"a","u","t","h","e","n","t","i","c","a","t","i","o","n">>, <<"a","u","t","h","o","r","i","z","a","t","i","o","n">>, <<"s","e","c","u","r","i","t","y">>>> >>

Range(f) == {f[i] : i \in DOMAIN f}
CodeTerms == UNION {Range(CodePatterns[g]) : g \in 1..Len(CodePatterns)}

\* every string the highlights list can hold, in a fixed order
TermUniverse == <<<<"A","P","I">>, <<"D","A","T","A","B","A","S","E">>, <<"S","E","R","V","I","C","E">>, <<"C","L","A","S","S">>, <<"M","E","T","H","O","D">>, <<"F","U","N","C","T","I","O","N">>,
                  <<"E","N","D","P","O","I","N","T">>, <<"S","Q","L">>, <<"J","S","O","N">>, <<"X","M","L">>, <<"R","E","S","T">>,
                  <<"A","U","T","H","E","N","T","I","C","A","T","I","O","N">>, <<"A","U","T","H","O","R","I","Z","A","T","I","O","N">>, <<"S","E","C","U","R","I","T","Y">>>>

HighlightsCap == 5
HighWords == 1000
HighTechnical == 10
MediumWords == 500
MediumTechnical == 5

\* The place of a string in the iteration order of a set of str.  It follows
\* from the string hashes, which the interpreter salts per process: the seed
\* selects one of the orders a process can show.
HashRank(t, seed) ==
    LET idx == CHOOSE i \in 1..Len(TermUniverse) : TermUniverse[i] = t
    IN  (idx + 5 * seed) % Len(TermUniverse)

\* list(set(highlights)) in a process with the given seed
ListOfSet(S, seed) ==
    [i \in 1..Cardinality(S) |->
        CHOOSE t \in S :
            Cardinality({u \in S : HashRank(u, seed) < HashRank(t, seed)}) = i - 1]

\* set(highlights): the keywords found as substrings and the pattern words
\* found as whole words, uppercased
HighlightSet(text) ==
    LET lower == Lower(text)
    IN  {Upper(k) : k \in {w \in Range(TechnicalKeywords) : Contains(lower, w)}}
        \cup {Upper(k) : k \in {w \in CodeTerms :
                                  \E i \in 1..Len(lower) : WordAt(lower, i, w)}}

\* xs[:n]
Take(xs, n) == SubSeq(xs, 1, IF Len(xs) < n THEN Len(xs) ELSE n)

Uncapped(xs) == xs
TopHighlights(xs) == Take(xs, HighlightsCap)

extract_technical_highlights(text, seed) ==
    TopHighlights(ListOfSet(HighlightSet(text), seed))

ScoreInclusive(words, technical_count) ==
    IF words >= HighWords \/ technical_count >= HighTechnical THEN "High"
    ELSE IF words >= MediumWords \/ technical_count >= MediumTechnical THEN "Medium"
    ELSE "Low"
Score(words, technical_count) ==
    IF words > HighWords \/ technical_count > HighTechnical THEN "High"
    ELSE IF words > MediumWords \/ technical_count > MediumTechnical THEN "Medium"
    ELSE "Low"

calculate_complexity_score(text, seed) ==
    Score(Cardinality(SplitWords(text)),
          Len(extract_technical_highlights(text, seed)))

---------------------------------------------------------------------------
(* Release type (content_analyzer.py 216-233)                              *)

FeatureReleaseMin == 3
MaintenanceKeywords == <<<<"f","i","x">>, <<"b","u","g">>, <<"p","a","t","c","h">>, <<"h","o","t","f","i","x">>>>

\* $ of re: the end of the string, or just before a final line break
AtEnd(v, e) == e = Len(v) + 1 \/ (e = Len(v) /\ v[e] = "\n")

\* re.match(r'v?\d+\.0(?:\.0)?$', v)
IsMajorVersion(v) ==
    LET a == IF Len(v) >= 1 /\ v[1] = "v" THEN 2 ELSE 1
        d == SkipDigits(v, a)
        e == d + 2
    IN  /\ d > a
        /\ MatchAt(v, d, <<".","0">>)
        /\ (AtEnd(v, e) \/ (MatchAt(v, e, <<".","0">>) /\ AtEnd(v, e + 2)))

FeaturesFirst(version, text) ==
    IF count_features(text) > FeatureReleaseMin THEN "Feature Release"
    ELSE IF IsMajorVersion(version) THEN "Major Release"
    ELSE IF \E k \in 1..Len(MaintenanceKeywords) :
                Contains(Lower(text), MaintenanceKeywords[k])
         THEN "Maintenance Release"
    ELSE "Standard Release"
MaintenanceFirst(version, text) ==
    IF IsMajorVersion(version) THEN "Major Release"
    ELSE IF \E k \in 1..Len(MaintenanceKeywords) :
                Contains(Lower(text), MaintenanceKeywords[k])
         THEN "Maintenance Release"
    ELSE IF count_features(text) > FeatureReleaseMin THEN "Feature Release"
    ELSE "Standard Release"
LowerFeatureThreshold(version, text) ==
    IF IsMajorVersion(version) THEN "Major Release"
    ELSE IF count_features(text) > FloorFeatures THEN "Feature Release"
    ELSE IF \E k \in 1..Len(MaintenanceKeywords) :
                Contains(Lower(text), MaintenanceKeywords[k])
         THEN "Maintenance Release"
    ELSE "Standard Release"
determine_release_type(version, text) ==
    IF IsMajorVersion(version) THEN "Major Release"
    ELSE IF count_features(text) > FeatureReleaseMin THEN "Feature Release"
    ELSE IF \E k \in 1..Len(MaintenanceKeywords) :
                Contains(Lower(text), MaintenanceKeywords[k])
         THEN "Maintenance Release"
    ELSE "Standard Release"

---------------------------------------------------------------------------
(* Merge-request listing (mr_utils.py 43-140, 162-171)                     *)

NoDescriptor == [kind |-> "none"]
ShortShaLen == 8
MinShaRun == 8

\* the characters of file names and sort keys, in code point order
AsciiOrder == <<" ","#","(",")","-",".","/","0","1","2","3","4","5","6","7","8","9",":","A","B","C","D","E","F","G","H","I","J","K","L","M","N","O","P","Q","R","S","T","U","V","W","X","Y","Z","_","a","b","c","d","e","f","g","h","i","j","k","l","m","n","o","p","q","r","s","t","u","v","w","x","y","z">>
Code(c) == CHOOSE i \in 1..Len(AsciiOrder) : AsciiOrder[i] = c

\* a < b and a = b of str
StrLess(a, b) ==
    \E k \in 1..(Len(a) + 1) :
        /\ k <= Len(b)
        /\ \A i \in 1..(k - 1) : a[i] = b[i]
        /\ (k = Len(a) + 1 \/ Code(a[k]) < Code(b[k]))

\* blob.name.split('/')[-1]
LastSegment(name) ==
    LET slashes == {i \in 1..Len(name) : name[i] = "/"}
    IN  IF slashes = {} THEN name ELSE From(name, Max(slashes) + 1)

\* f"{value:03d}": the format code d takes an int and raises ValueError for
\* a str
Format03d(value) ==
    IF value.type = "int"
    THEN [raised |-> FALSE,
          text |-> [i \in 1..(3 - Len(value.text)) |-> "0"] \o value.text]
    ELSE [raised |-> TRUE, text |-> <<>>]

\* Pattern 1, re.match(r"mr(\d+)_([a-f0-9]+)\.json", filename): the groups
MrNumberForm(f) ==
    LET d == SkipDigits(f, 3)
        h == SkipIn(HexChars, f, d + 1)
    IN  IF /\ MatchAt(f, 1, <<"m","r">>) /\ d > 3
           /\ MatchAt(f, d, <<"_">>) /\ h > d + 1
           /\ MatchAt(f, h, <<".","j","s","o","n">>)
        THEN [matched |-> TRUE, mr_number |-> Slice(f, 3, d), sha |-> Slice(f, d + 1, h)]
        ELSE [matched |-> FALSE]

\* Pattern 2, re.match(r"(\d{8}_\d{6})_([a-f0-9]+)_(.+)\.(md|json)", filename):
\* the greedy (.+) ends at the last ".md" or ".json"
TimestampForm(f) ==
    LET h == SkipIn(HexChars, f, 17)
        nls == {i \in (h + 1)..Len(f) : f[i] = "\n"}
        stop == IF nls = {} THEN Len(f) ELSE Min(nls) - 1
        dots == {p \in (h + 2)..stop :
                    MatchAt(f, p, <<".","m","d">>) \/ MatchAt(f, p, <<".","j","s","o","n">>)}
        dot == Max(dots)
    IN  IF /\ SkipDigits(f, 1) = 9 /\ MatchAt(f, 9, <<"_">>)
           /\ SkipDigits(f, 10) = 16 /\ MatchAt(f, 16, <<"_">>)
           /\ h > 17 /\ MatchAt(f, h, <<"_">>)
           /\ dots # {}
        THEN [matched |-> TRUE, timestamp |-> Slice(f, 1, 16), sha |-> Slice(f, 17, h),
              branch |-> Slice(f, h + 1, dot),
              extension |-> IF MatchAt(f, dot, <<".","m","d">>) THEN <<"m","d">> ELSE <<"j","s","o","n">>]
        ELSE [matched |-> FALSE]

\* Pattern 3, re.search(r"([a-f0-9]{8,})", filename): the leftmost run
GenericForm(f) ==
    LET starts == {i \in 1..Len(f) : SkipIn(HexChars, f, i) - i >= MinShaRun}
    IN  IF starts = {} THEN [matched |-> FALSE]
        ELSE [matched |-> TRUE,
              sha |-> Slice(f, Min(starts), SkipIn(HexChars, f, Min(starts)))]

\* parse_mr_filename.  The formatted creation dates of a descriptor are left
\* out: they come from the blob's metadata and decide nothing here.  The
\* mr_number group is a str, so building the sort key raises inside the try
\* block and the function returns None.
parse_mr_filename(filename) ==
    LET p1 == MrNumberForm(filename)
        p2 == TimestampForm(filename)
        p3 == GenericForm(filename)
    IN  IF p1.matched THEN
            LET key == Format03d([type |-> "str", text |-> p1.mr_number])
            IN  IF key.raised THEN NoDescriptor
                ELSE [kind |-> "mr",
                      display_name |-> <<"M","R"," ","#">> \o p1.mr_number \o <<" ","(">>
                                       \o Take(p1.sha, ShortShaLen) \o <<")">>,
                      sha |-> p1.sha, filename |-> filename, sort_key |-> key.text]
        ELSE IF p2.matched THEN
            [kind |-> "timestamp",
             display_name |-> Take(p2.sha, ShortShaLen) \o <<"-">> \o p2.branch,
             sha |-> p2.sha, branch |-> p2.branch, filename |-> filename,
             sort_key |-> p2.timestamp, file_type |-> Upper(p2.extension)]
        ELSE IF p3.matched THEN
            [kind |-> "generic",
             display_name |-> <<"M","R"," ">> \o Take(p3.sha, ShortShaLen) \o <<" ","(">>
                              \o filename \o <<")">>,
             sha |-> p3.sha, filename |-> filename, sort_key |-> filename]
        ELSE NoDescriptor

IsDescriptor(d) == d.kind # "none"

\* list.sort(key=sort_key, reverse=True): descending and stable
SortNewestFirst(mrs) ==
    LET place(i) ==
            1 + Cardinality({j \in 1..Len(mrs) : StrLess(mrs[i].sort_key, mrs[j].sort_key)})
              + Cardinality({j \in 1..(i - 1) : mrs[j].sort_key = mrs[i].sort_key})
    IN  [p \in 1..Len(mrs) |-> mrs[CHOOSE i \in 1..Len(mrs) : place(i) = p]]

\* storage.Client() and bucket.list_blobs(prefix): the listing, or an
\* exception when the store cannot be reached
list_blobs(up, names) ==
    IF up THEN [raised |-> FALSE, value |-> names]
    ELSE [raised |-> TRUE, value |-> <<>>]

\* the try block of get_mrs_for_release
ListMrs(up, names) ==
    LET listing == list_blobs(up, names)
    IN  IF listing.raised THEN [raised |-> TRUE, value |-> <<>>]
        ELSE [raised |-> FALSE,
              value |-> SortNewestFirst(SelectSeq(
                  [i \in 1..Len(listing.value) |->
                      parse_mr_filename(LastSegment(listing.value[i]))],
                  IsDescriptor))]

\* get_mrs_for_release: the except clause returns the empty list
get_mrs_for_release(up, names) ==
    IF ListMrs(up, names).raised THEN [raised |-> FALSE, value |-> <<>>]
    ELSE ListMrs(up, names)

\* the count with neither except clause: a store failure reaches the caller
CountMrsUnguarded(up, names) ==
    [raised |-> ListMrs(up, names).raised, value |-> Len(ListMrs(up, names).value)]
\* count_mrs_in_release: the except clause returns 0
count_mrs_in_release(up, names) ==
    LET mrs == get_mrs_for_release(up, names)
    IN  IF mrs.raised THEN [raised |-> FALSE, value |-> 0]
        ELSE [raised |-> FALSE, value |-> Len(mrs.value)]

---------------------------------------------------------------------------
(* analyze_release_content (content_analyzer.py 21-49, 235-249)            *)

NoRecord == [none |-> TRUE]
EmptySummary == <<"N","o"," ","c","o","n","t","e","n","t"," ","a","v","a","i","l","a","b","l","e"," ","f","o","r"," ","a","n","a","l","y","s","i","s",".">>
EmptyProjectName == <<"P","r","o","j","e","c","t">>

\* _empty_analysis
empty_analysis(now) ==
    [title |-> DefaultTitle,
     summary |-> EmptySummary,
     features_count |-> 0,
     improvements_count |-> 0,
     changes_count |-> 0,
     mr_count |-> 0,
     project_name |-> EmptyProjectName,
     release_date |-> FormatDate(now),
     technical_highlights |-> <<>>,
     complexity_score |-> "Low",
     release_type |-> "Unknown"]

\* not content: None and the empty string are both false
AlwaysAnalyzed(given, text) == FALSE
Falsy(given, text) == ~given \/ text = <<>>

\* the helpers the dict literal of lines 35-47 calls, in its order
Extractors == <<"_extract_title", "_extract_summary", "_count_features",
                "_count_improvements", "_count_changes", "count_mrs_in_release",
                "_extract_project_name", "_extract_release_date",
                "_extract_technical_highlights", "_calculate_complexity_score",
                "_determine_release_type">>

\* what count_mrs_in_release reaches in mr_utils.py: get_mrs_for_release,
\* which builds the object-store client and lists the bucket
StoreCalls == {"get_mrs_for_release", "storage.Client"}

\* The outcome of one call: the record returned or an exception raised, and
\* the helpers called on the way
analyze_release_content(given, text, version, up, names, seed, now) ==
    IF Falsy(given, text)
    THEN [raised |-> FALSE, value |-> empty_analysis(now), calls |-> {}]
    ELSE LET mr_count == count_mrs_in_release(up, names)
         IN  IF mr_count.raised
             THEN [raised |-> TRUE, value |-> NoRecord,
                   calls |-> {Extractors[k] : k \in 1..6} \cup StoreCalls]
             ELSE [raised |-> FALSE, calls |-> Range(Extractors) \cup StoreCalls,
                   value |->
                   [title |-> extract_title(text),
                    summary |-> extract_summary(text),
                    features_count |-> count_features(text),
                    improvements_count |-> count_improvements(text),
                    changes_count |-> count_changes(text),
                    mr_count |-> mr_count.value,
                    project_name |-> extract_project_name(text),
                    release_date |-> extract_release_date(text, now),
                    technical_highlights |-> extract_technical_highlights(text, seed),
                    complexity_score |-> calculate_complexity_score(text, seed),
                    release_type |-> determine_release_type(version, text)]]

---------------------------------------------------------------------------
(* analyze_mr_content (content_analyzer.py 251-313)                        *)

\* the bug-fix keywords tested before the feature keywords
BugFixFirst(text) ==
    LET content_lower == Lower(text)
        any(keywords) == \E k \in 1..Len(keywords) : Contains(content_lower, keywords[k])
    IN  IF any(<<<<"f","i","x">>, <<"b","u","g">>, <<"i","s","s","u","e">>>>) THEN "Bug Fix"
        ELSE IF any(<<<<"f","e","a","t","u","r","e">>, <<"n","e","w">>, <<"a","d","d">>>>) THEN "Feature"
        ELSE IF any(<<<<"r","e","f","a","c","t","o","r">>, <<"i","m","p","r","o","v","e">>, <<"o","p","t","i","m","i","z","e">>>>) THEN "Improvement"
        ELSE "Other"
\* _determine_mr_type: any(keyword in content_lower for keyword in [...])
determine_mr_type(text) ==
    LET content_lower == Lower(text)
        any(keywords) == \E k \in 1..Len(keywords) : Contains(content_lower, keywords[k])
    IN  IF any(<<<<"f","e","a","t","u","r","e">>, <<"n","e","w">>, <<"a","d","d">>>>) THEN "Feature"
        ELSE IF any(<<<<"f","i","x">>, <<"b","u","g">>, <<"i","s","s","u","e">>>>) THEN "Bug Fix"
        ELSE IF any(<<<<"r","e","f","a","c","t","o","r">>, <<"i","m","p","r","o","v","e">>, <<"o","p","t","i","m","i","z","e">>>>) THEN "Improvement"
        ELSE "Other"

HighImpactWords == 500
MediumImpactWords == 200
ManyLinesWords == 300
SomeLinesWords == 150

\* re.findall(r'\b\w+<sep>\w+\b', content) as a set: the matches from left
\* to right, each search resuming where the match before it ended.  Both
\* runs of \w are maximal, since the first must meet the separator and the
\* second a word boundary.
RECURSIVE FileMentions(_, _, _)
FileMentions(s, from, sep) ==
    LET matchEnd(i) ==
            LET r == SkipIn(WordChars, s, i)
            IN  IF /\ IsWordChar(s[i])
                   /\ (i = 1 \/ ~IsWordChar(s[i - 1]))
                   /\ r + 1 <= Len(s) /\ s[r] = sep /\ IsWordChar(s[r + 1])
                THEN SkipIn(WordChars, s, r + 1)
                ELSE 0
        starts == {i \in from..Len(s) : matchEnd(i) > 0}
    IN  IF starts = {} THEN {}
        ELSE {Slice(s, Min(starts), matchEnd(Min(starts)))}
             \cup FileMentions(s, matchEnd(Min(starts)), sep)

\* analyze_mr_content with _assess_mr_impact, _count_files_changed and
\* _estimate_lines_changed; its mr_info argument is not read
analyze_mr_content(text) ==
    LET words == Cardinality(SplitWords(text))
        assess_mr_impact ==
            IF words > HighImpactWords THEN "High"
            ELSE IF words > MediumImpactWords THEN "Medium"
            ELSE "Low"
        files == FileMentions(text, 1, ".") \cup FileMentions(text, 1, "/")
        estimate_lines_changed ==
            IF words > ManyLinesWords THEN "100+"
            ELSE IF words > SomeLinesWords THEN "50-100"
            ELSE "<50"
    IN  [type |-> determine_mr_type(text),
         impact |-> assess_mr_impact,
         files_changed |-> Cardinality(files),
         lines_changed |-> estimate_lines_changed]

---------------------------------------------------------------------------
(* Inputs                                                                  *)

MaxPieces == 2
MaxLinePieces == 3
MaxSectionPieces == 3
MaxFieldPieces == 3
MaxSeed == 1

\* a line of exactly SummaryMinLen characters, and one a character longer
LongWord == [i \in 1..SummaryMinLen |-> "y"]
LongLine == [i \in 1..(SummaryMinLen + 1) |-> "z"]

\* every concatenation of at most n of the pieces
RECURSIVE DocsOf(_, _)
DocsOf(pieces, n) ==
    IF n = 0 THEN {<<>>}
    ELSE LET shorter == DocsOf(pieces, n - 1)
         IN  shorter \cup {d \o p : d \in shorter, p \in pieces}

\* the fragments release notes are built from
Pieces == {
    <<"#"," ","N","o","t","e","s","\n">>,
    <<"#","#"," ","F","e","a","t","u","r","e","s","\n","-"," ","o","n","e","\n","2","."," ","t","w","o","\n">>,
    <<"n","e","w"," ","f","e","a","t","u","r","e",","," ","n","e","w"," ","m","o","d","u","l","e",","," ","n","e","w"," ","c","a","p","a","b","i","l","i","t","y",","," ","n","e","w"," ","f","u","n","c","t","i","o","n","a","l","i","t","y","\n">>,
    <<" ","f","i","x">>,
    <<" ","a","p","i"," ","s","q","l"," ","j","s","o","n"," ","x","m","l"," ","r","e","s","t"," ","c","l","a","s","s">>,
    LongLine }

Documents == DocsOf(Pieces, MaxPieces)

\* the fragments of headings, list items, quotations and paragraphs
LinePieces == {
    <<"#">>,
    <<"\n">>,
    <<" ">>,
    <<"#"," ","N","o","t","e","s">>,
    <<"-">>,
    <<"*">>,
    <<">">>,
    <<"x">>,
    LongWord,
    LongLine }

LineDocuments == DocsOf(LinePieces, MaxLinePieces)

\* n one-letter words, each followed by a blank
FillerOf(n) == [i \in 1..(2 * n) |-> IF i % 2 = 1 THEN "w" ELSE " "]

\* documents whose word counts lie at and next to the scoring thresholds
LongDocuments ==
    {FillerOf(n) \o tail :
        n \in {MediumWords, HighWords},
        tail \in {<<>>, <<"w">>, <<" ","a","p","i"," ","s","q","l"," ","j","s","o","n"," ","x","m","l"," ","r","e","s","t"," ","c","l","a","s","s">>}}

\* headings, list items and feature phrases, one line each
SectionPieces == {
    <<"#","#"," ","F","e","a","t","u","r","e","s","\n">>,
    <<"#","#"," ","F","e","a","t","u","r","e","s"," ","O","v","e","r","v","i","e","w","\n">>,
    <<"s","e","e"," ","#","f","e","a","t","u","r","e","s","\n">>,
    <<"#","#"," ","N","e","x","t","\n">>,
    <<"-"," ","a","\n">>,
    <<"2","."," ","b","\n">>,
    <<"n","e","w"," ","f","e","a","t","u","r","e","\n">>,
    <<"a","d","d","e","d"," ","c","a","p","a","b","i","l","i","t","y","\n">>,
    <<"i","n","t","r","o","d","u","c","e","d"," ","f","e","a","t","u","r","e","\n">>,
    <<"i","m","p","l","e","m","e","n","t","e","d"," ","f","u","n","c","t","i","o","n","a","l","i","t","y","\n">> }

SectionDocuments == DocsOf(SectionPieces, MaxSectionPieces)

\* project phrases and dates, a blank after each
FieldPieces == {
    <<"L","i","b","r","a","r","y"," ","M","a","n","a","g","e","m","e","n","t"," ","S","y","s","t","e","m"," ">>,
    <<"d","e","m","o","-","p","r","o","j","e","c","t"," ">>,
    <<"m","y","_","a","p","p"," ","p","l","a","t","f","o","r","m"," ">>,
    <<"S","y","s","t","e","m",":"," ","c","o","r","e","-","a","p","i"," ">>,
    <<"J","u","n","e"," ","1",","," ","2","0","2","4"," ">>,
    <<"M","A","R","C","H"," ","0","5"," ","2","0","2","3"," ">>,
    <<"1","/","2","/","2","0","2","4"," ">>,
    <<"2","0","2","4","-","0","1","-","1","5"," ">> }

FieldDocuments == DocsOf(FieldPieces, MaxFieldPieces)

\* the documents analysed more than once
RepeatDocuments == DocsOf(Pieces, 1) \ {<<>>}

MaxMrPieces == 2
MaxBlobs == 2

\* the merge-request descriptions: fragments with and without keywords and
\* file names, and after them as many further words as reach each word
\* threshold
MrDocuments ==
    LET pieces == { <<"A","d","d"," ","l","o","g","i","n"," ">>, <<"n","e","w"," ","f","e","a","t","u","r","e"," ">>, <<"F","i","x"," ","c","r","a","s","h"," ">>, <<"b","u","g"," ">>,
                    <<"I","s","s","u","e"," ","1","2"," ">>, <<"r","e","f","a","c","t","o","r"," ">>, <<"i","m","p","r","o","v","e"," ">>, <<"O","p","t","i","m","i","z","e"," ">>,
                    <<"p","r","e","f","i","x"," ">>, <<"d","o","c","s"," ">>, <<"a","p","p",".","p","y"," ">>, <<"s","r","c","/","a",".","b",".","c"," ">> }
        padding(n) == [i \in 1..(2 * n) |-> IF i % 2 = 1 THEN "x" ELSE " "]
        paddings == {0, SomeLinesWords - 1, MediumImpactWords - 1, ManyLinesWords - 1,
                     HighImpactWords - 1}
    IN  {d \o padding(n) : d \in DocsOf(pieces, MaxMrPieces), n \in paddings}

\* the blob listings of a release folder: at most MaxBlobs names, each under
\* the prefix of the folder
MrListings ==
    LET names == { <<"m","r","1","_","0","a","1","b","2","c",".","j","s","o","n">>, <<"m","r","1","2","_","0","1","2","3","4","5","6","7","8","9","a","b","c","d","e","f",".","j","s","o","n">>,
                   <<"m","r","7","_","0","a","1","b","2","c",".","m","d">>,
                   <<"2","0","2","4","0","1","0","1","_","1","2","0","0","0","0","_","a","b","c","d","e","f","1","2","_","f","e","a","t","u","r","e","-","x",".","m","d">>,
                   <<"2","0","2","4","0","1","0","2","_","0","9","3","0","0","0","_","0","1","2","3","4","5","6","7","8","9","a","b","_","f","i","x",".","j","s","o","n">>,
                   <<"d","e","a","d","b","e","e","f","9","9",".","t","x","t">>, <<"n","o","t","e","s",".","t","x","t">> }
        prefix == <<"r","e","l","e","a","s","e","s","/","v","2",".","1","/","m","r","_","d","o","c","s","/">>
        RECURSIVE listings(_)
        listings(n) ==
            IF n = 0 THEN {<<>>}
            ELSE listings(n - 1)
                 \cup {Append(l, prefix \o f) : l \in listings(n - 1), f \in names}
    IN  listings(MaxBlobs)

Versions == {<<"v","3",".","0">>, <<"2",".","0",".","0">>, <<"v","2",".","1">>}

Listing == <<<<"m","r","1","_","0","a","1","b","2","c",".","j","s","o","n">>,
             <<"2","0","2","4","0","1","0","1","_","1","2","0","0","0","0","_","a","b","c","d","e","f","1","2","_","f","e","a","t","u","r","e","-","x",".","m","d">>,
             <<"d","o","c","s","/","d","e","a","d","b","e","e","f","9","9",".","t","x","t">>,
             <<"n","o","t","e","s",".","t","x","t">>>>

Today == [year |-> 2026, month |-> 11, day |-> 6]

---------------------------------------------------------------------------
(* The state machine                                                       *)

Init ==
    /\ \/ content_given = FALSE /\ content = <<>>
       \/ content_given = TRUE /\ content \in Documents
    /\ release_version \in Versions
    /\ store_up = TRUE
    /\ blobs = Listing
    /\ hash_seed \in 0..MaxSeed
    /\ today = Today
    /\ pc = "ready"
    /\ analysis = NoRecord
    /\ called = {}
    /\ previous = NoRecord

\* display_release_notes calls analyzer.analyze_release_content
AnalyzeRelease ==
    /\ pc = "ready"
    /\ \E outcome \in {analyze_release_content(content_given, content, release_version,
                                              store_up, blobs, hash_seed, today)} :
           /\ pc' = IF outcome.raised THEN "raised" ELSE "returned"
           /\ analysis' = outcome.value
           /\ called' = outcome.calls
    /\ UNCHANGED <<content_given, content, release_version, store_up, blobs,
                   hash_seed, today, previous>>

\* the page is rendered and the record dropped; the next run calls again
Render ==
    /\ pc = "returned"
    /\ pc' = "ready"
    /\ analysis' = NoRecord
    /\ called' = {}
    /\ UNCHANGED <<content_given, content, release_version, store_up, blobs,
                   hash_seed, today, previous>>

\* the object store becomes unreachable, or reachable again
StoreOutage ==
    /\ pc = "ready"
    /\ store_up
    /\ store_up' = FALSE
    /\ UNCHANGED <<content_given, content, release_version, blobs, hash_seed,
                   today, pc, analysis, called, previous>>

StoreRestore ==
    /\ pc = "ready"
    /\ ~store_up
    /\ store_up' = TRUE
    /\ UNCHANGED <<content_given, content, release_version, blobs, hash_seed,
                   today, pc, analysis, called, previous>>

Next == AnalyzeRelease \/ Render \/ StoreOutage \/ StoreRestore

Spec == Init /\ [][Next]_vars

---------------------------------------------------------------------------
(* _calculate_complexity_score applied on its own, long documents included *)

InitScore ==
    /\ content_given = TRUE
    /\ content \in (Documents \cup LongDocuments) \ {<<>>}
    /\ release_version = <<"v","2",".","1">>
    /\ store_up = TRUE
    /\ blobs = Listing
    /\ hash_seed \in 0..MaxSeed
    /\ today = Today
    /\ pc = "ready"
    /\ analysis = NoRecord
    /\ called = {}
    /\ previous = NoRecord

CalculateComplexity ==
    /\ pc = "ready"
    /\ pc' = "returned"
    /\ analysis' = [complexity_score |-> calculate_complexity_score(content, hash_seed)]
    /\ called' = {"_calculate_complexity_score"}
    /\ UNCHANGED <<content_given, content, release_version, store_up, blobs,
                   hash_seed, today, previous>>

NextScore == CalculateComplexity

SpecScore == InitScore /\ [][NextScore]_vars

---------------------------------------------------------------------------
(* _extract_title and _extract_summary applied on their own               *)

HeadingMark == <<"#"," ">>

InitLines ==
    /\ content_given = TRUE
    /\ content \in LineDocuments
    /\ release_version = <<"v","2",".","1">>
    /\ store_up = TRUE
    /\ blobs = Listing
    /\ hash_seed = 0
    /\ today = Today
    /\ pc = "ready"
    /\ analysis = NoRecord
    /\ called = {}
    /\ previous = NoRecord

ExtractTitle ==
    /\ pc = "ready"
    /\ pc' = "title"
    /\ analysis' = [title |-> extract_title(content)]
    /\ called' = {"_extract_title"}
    /\ UNCHANGED <<content_given, content, release_version, store_up, blobs,
                   hash_seed, today, previous>>

\* the extracted title, wrapped as a heading, is extracted again
ExtractTitleAgain ==
    /\ pc = "title"
    /\ pc' = "retitled"
    /\ analysis' = [title |-> analysis.title,
                    again |-> extract_title(HeadingMark \o analysis.title)]
    /\ called' = {"_extract_title"}
    /\ UNCHANGED <<content_given, content, release_version, store_up, blobs,
                   hash_seed, today, previous>>

ExtractSummary ==
    /\ pc = "ready"
    /\ pc' = "summary"
    /\ analysis' = [summary |-> extract_summary(content)]
    /\ called' = {"_extract_summary"}
    /\ UNCHANGED <<content_given, content, release_version, store_up, blobs,
                   hash_seed, today, previous>>

NextLines == ExtractTitle \/ ExtractTitleAgain \/ ExtractSummary

SpecLines == InitLines /\ [][NextLines]_vars

---------------------------------------------------------------------------
(* _count_section_items, _count_features and _determine_release_type      *)
(* applied on their own                                                    *)

FeatureSections == <<<<"n","e","w"," ","f","e","a","t","u","r","e","s">>, <<"f","e","a","t","u","r","e","s">>, <<"a","d","d","i","t","i","o","n","s">>>>

InitCounts ==
    /\ content_given = TRUE
    /\ content \in SectionDocuments \ {<<>>}
    /\ release_version = <<"v","2",".","1">>
    /\ store_up = TRUE
    /\ blobs = Listing
    /\ hash_seed = 0
    /\ today = Today
    /\ pc = "ready"
    /\ analysis = NoRecord
    /\ called = {}
    /\ previous = NoRecord

CountSectionItems ==
    /\ pc = "ready"
    /\ pc' = "sections"
    /\ analysis' = [section_items |-> count_section_items(content, FeatureSections)]
    /\ called' = {"_count_section_items"}
    /\ UNCHANGED <<content_given, content, release_version, store_up, blobs,
                   hash_seed, today, previous>>

CountFeatures ==
    /\ pc = "ready"
    /\ pc' = "features"
    /\ analysis' = [features_count |-> count_features(content)]
    /\ called' = {"_count_features"}
    /\ UNCHANGED <<content_given, content, release_version, store_up, blobs,
                   hash_seed, today, previous>>

\* the release type of the same text, beside the count just taken
DetermineReleaseType ==
    /\ pc = "features"
    /\ pc' = "typed"
    /\ analysis' = [features_count |-> analysis.features_count,
                    release_type |-> determine_release_type(release_version, content)]
    /\ called' = {"_determine_release_type"}
    /\ UNCHANGED <<content_given, content, release_version, store_up, blobs,
                   hash_seed, today, previous>>

NextCounts == CountSectionItems \/ CountFeatures \/ DetermineReleaseType

SpecCounts == InitCounts /\ [][NextCounts]_vars

---------------------------------------------------------------------------
(* _extract_project_name and _extract_release_date applied on their own   *)

InitFields ==
    /\ content_given = TRUE
    /\ content \in FieldDocuments
    /\ release_version = <<"v","2",".","1">>
    /\ store_up = TRUE
    /\ blobs = Listing
    /\ hash_seed = 0
    /\ today = Today
    /\ pc = "ready"
    /\ analysis = NoRecord
    /\ called = {}
    /\ previous = NoRecord

ExtractProjectName ==
    /\ pc = "ready"
    /\ pc' = "project"
    /\ analysis' = [project_name |-> extract_project_name(content)]
    /\ called' = {"_extract_project_name"}
    /\ UNCHANGED <<content_given, content, release_version, store_up, blobs,
                   hash_seed, today, previous>>

ExtractReleaseDate ==
    /\ pc = "ready"
    /\ pc' = "date"
    /\ analysis' = [release_date |-> extract_release_date(content, today)]
    /\ called' = {"_extract_release_date"}
    /\ UNCHANGED <<content_given, content, release_version, store_up, blobs,
                   hash_seed, today, previous>>

NextFields == ExtractProjectName \/ ExtractReleaseDate

SpecFields == InitFields /\ [][NextFields]_vars

---------------------------------------------------------------------------
(* analyze_release_content called again on the same text and label: the   *)
(* page is run again, in the same process or in a new one                 *)

InitRepeat ==
    /\ content_given = TRUE
    /\ content \in RepeatDocuments
    /\ release_version \in Versions
    /\ store_up = TRUE
    /\ blobs = Listing
    /\ hash_seed \in 0..MaxSeed
    /\ today = Today
    /\ pc = "ready"
    /\ analysis = NoRecord
    /\ called = {}
    /\ previous = NoRecord

\* the record is kept for comparison, with the process and the store state
\* it was made in, and the page is run again
KeepRecord ==
    /\ pc = "returned"
    /\ pc' = "ready"
    /\ previous' = [record |-> analysis, hash_seed |-> hash_seed, store_up |-> store_up]
    /\ analysis' = NoRecord
    /\ called' = {}
    /\ UNCHANGED <<content_given, content, release_version, store_up, blobs,
                   hash_seed, today>>

\* the application is started again: a new process has a new string hash seed
RestartProcess ==
    /\ pc = "ready"
    /\ hash_seed' \in (0..MaxSeed) \ {hash_seed}
    /\ UNCHANGED <<content_given, content, release_version, store_up, blobs,
                   today, pc, analysis, called, previous>>

NextRepeat ==
    AnalyzeRelease \/ KeepRecord \/ RestartProcess \/ StoreOutage \/ StoreRestore

SpecRepeat == InitRepeat /\ [][NextRepeat]_vars

---------------------------------------------------------------------------
(* The merge-request side: get_mrs_for_release lists a release folder, and *)
(* analyze_mr_content analyses one description                             *)

InitMr ==
    /\ \/ /\ pc = "folder"
          /\ content_given = FALSE /\ content = <<>>
          /\ blobs \in MrListings
          /\ store_up \in BOOLEAN
       \/ /\ pc = "mr"
          /\ content_given = TRUE /\ content \in MrDocuments
          /\ blobs = <<>>
          /\ store_up = TRUE
    /\ release_version = <<"v","2",".","1">>
    /\ hash_seed = 0
    /\ today = Today
    /\ analysis = NoRecord
    /\ called = {}
    /\ previous = NoRecord

\* render_mr_documentation_section calls get_mrs_for_release(selected_release)
GetMrsForRelease ==
    /\ pc = "folder"
    /\ pc' = "listed"
    /\ analysis' = [mrs |-> get_mrs_for_release(store_up, blobs).value]
    /\ called' = {"get_mrs_for_release", "storage.Client"}
                  \cup (IF store_up /\ blobs # <<>> THEN {"parse_mr_filename"} ELSE {})
    /\ UNCHANGED <<content_given, content, release_version, store_up, blobs,
                   hash_seed, today, previous>>

AnalyzeMr ==
    /\ pc = "mr"
    /\ pc' = "mr_analyzed"
    /\ analysis' = analyze_mr_content(content)
    /\ called' = {"_determine_mr_type", "_assess_mr_impact", "_count_files_changed",
                  "_estimate_lines_changed"}
    /\ UNCHANGED <<content_given, content, release_version, store_up, blobs,
                   hash_seed, today, previous>>

NextMr == GetMrsForRelease \/ AnalyzeMr

SpecMr == InitMr /\ [][NextMr]_vars

---------------------------------------------------------------------------
(* Properties of analyze_release_content                                   *)

RecordFields ==
    {"title", "summary", "features_count", "improvements_count", "changes_count",
     "mr_count", "project_name", "release_date", "technical_highlights",
     "complexity_score", "release_type"}

NonEmptyContent == content_given /\ content # <<>>

\* C1: for every non-empty document text and every version label the record
\* returned by analyze_release_content has features_count >= 1,
\* improvements_count >= 0 and changes_count >= 0.
C1_CountsFloored ==
    (pc = "returned" /\ NonEmptyContent) =>
        /\ analysis.features_count >= 1
        /\ analysis.improvements_count >= 0
        /\ analysis.changes_count >= 0

\* a document in which nothing counts as a feature: the floor supplies the 1
C1_FloorApplied ==
    /\ pc = "returned"
    /\ content = <<" ","f","i","x">>
    /\ SumKeywordMatches(Lower(content), 1) = 0
    /\ analysis.features_count = 1

\* C2: when the document text is empty or absent the fixed empty-analysis
\* record is returned for any version label: the four counts are 0, the
\* highlights are empty, the complexity is Low, the release type is Unknown,
\* title, summary and project name are the defaults, and neither an extractor
\* nor the document source is called.
C2_EmptyAnalysis ==
    (pc = "returned" /\ ~NonEmptyContent) =>
        /\ analysis.features_count = 0
        /\ analysis.improvements_count = 0
        /\ analysis.changes_count = 0
        /\ analysis.mr_count = 0
        /\ analysis.technical_highlights = <<>>
        /\ analysis.complexity_score = "Low"
        /\ analysis.release_type = "Unknown"
        /\ analysis.title = <<"R","e","l","e","a","s","e"," ","D","o","c","u","m","e","n","t","a","t","i","o","n">>
        /\ analysis.summary = <<"N","o"," ","c","o","n","t","e","n","t"," ","a","v","a","i","l","a","b","l","e"," ","f","o","r"," ","a","n","a","l","y","s","i","s",".">>
        /\ analysis.project_name = <<"P","r","o","j","e","c","t">>
        /\ called = {}

\* absent text under a major version label, with the store unreachable
C2_AbsentAnalyzed ==
    /\ pc = "returned"
    /\ ~content_given
    /\ release_version = <<"v","3",".","0">>
    /\ ~store_up
    /\ analysis.release_type = "Unknown"

\* C3: analyze_release_content never raises: for every document text, absent
\* included, and every version label it returns a complete record; with the
\* object store unreachable mr_count is 0 and every other field is what it is
\* with the store reachable.
C3_NeverRaises ==
    /\ pc # "raised"
    /\ pc = "returned" =>
        /\ DOMAIN analysis = RecordFields
        /\ (~store_up /\ NonEmptyContent) =>
            analysis =
                [analyze_release_content(content_given, content, release_version,
                                         TRUE, blobs, hash_seed, today).value
                    EXCEPT !.mr_count = 0]

\* a document analysed in full while the store is unreachable
C3_StoreDownAnalyzed ==
    /\ pc = "returned"
    /\ ~store_up
    /\ NonEmptyContent
    /\ analysis.mr_count = 0
    /\ analysis.features_count > 1
    /\ "_determine_release_type" \in called

\* the labels of Versions that match v?<digits>.0 or v?<digits>.0.0
MajorLabels == {<<"v","3",".","0">>, <<"2",".","0",".","0">>}

\* C4 as stated: under a major version label the release type is Major
\* Release for any document content.
C4_MajorForAnyContent ==
    (pc = "returned" /\ release_version \in MajorLabels) =>
        analysis.release_type = "Major Release"

\* C4: under a major version label the release type is Major Release for any
\* non-empty document content, whatever the feature count and whether or not
\* fix, bug, patch or hotfix occur in it.
C4_MajorForNonEmptyContent ==
    (pc = "returned" /\ release_version \in MajorLabels /\ NonEmptyContent) =>
        analysis.release_type = "Major Release"

\* a major label on a document with more than three features and the word fix
C4_MajorDominates ==
    /\ pc = "returned"
    /\ release_version = <<"v","3",".","0">>
    /\ analysis.features_count > 3
    /\ Contains(Lower(content), <<"f","i","x">>)
    /\ analysis.release_type = "Major Release"

\* the uppercase forms of the keyword list and of the three term groups
UpperTerms ==
    {Upper(t) : t \in Range(TechnicalKeywords) \cup
                      Range(CodePatterns[1]) \cup Range(CodePatterns[2]) \cup
                      Range(CodePatterns[3])}

\* C5: technical_highlights has at most 5 entries, none of them twice, each
\* the uppercase form of a term of the keyword list or of the three term
\* groups.
C5_HighlightsBounded ==
    pc = "returned" =>
        LET h == analysis.technical_highlights
        IN  /\ Len(h) <= 5
            /\ \A i, j \in 1..Len(h) : i # j => h[i] # h[j]
            /\ \A i \in 1..Len(h) : h[i] \in UpperTerms

\* a document with more than five distinct terms: five of them are returned
C5_CapApplied ==
    /\ pc = "returned"
    /\ NonEmptyContent
    /\ Cardinality(HighlightSet(content)) > 5
    /\ Len(analysis.technical_highlights) = 5

\* whether the lowercased text contains fix, bug, patch or hotfix
MentionsMaintenance(text) ==
    \E word \in {<<"f","i","x">>, <<"b","u","g">>, <<"p","a","t","c","h">>, <<"h","o","t","f","i","x">>} : Contains(Lower(text), word)

\* C14: when the version label is not a major version, release_type for a
\* non-empty document is Feature Release when features_count > 3, otherwise
\* Maintenance Release when the lowercased text contains fix, bug, patch or
\* hotfix, otherwise Standard Release; it is never Unknown.
C14_TypeInFixedOrder ==
    (pc = "returned" /\ NonEmptyContent /\ release_version \notin MajorLabels) =>
        /\ analysis.release_type =
               IF analysis.features_count > 3 THEN "Feature Release"
               ELSE IF MentionsMaintenance(content) THEN "Maintenance Release"
               ELSE "Standard Release"
        /\ analysis.release_type # "Unknown"

\* more than three features and the word fix under v2.1: a Feature Release
C14_FeaturesBeforeFix ==
    /\ pc = "returned"
    /\ release_version = <<"v","2",".","1">>
    /\ analysis.features_count > 3
    /\ MentionsMaintenance(content)
    /\ analysis.release_type = "Feature Release"

\* C15: in the empty-analysis record title, summary and project_name are the
\* defaults the extractors fall back to ('Release Documentation', the generic
\* summary sentence, 'Library Management System') and release_date is the
\* current date as 'Month DD, YYYY'.
C15_EmptyRecordUsesExtractorDefaults ==
    (pc = "returned" /\ ~NonEmptyContent) =>
        /\ analysis.title = <<"R","e","l","e","a","s","e"," ","D","o","c","u","m","e","n","t","a","t","i","o","n">>
        /\ analysis.summary = <<"T","h","i","s"," ","r","e","l","e","a","s","e"," ","i","n","t","r","o","d","u","c","e","s"," ","e","n","h","a","n","c","e","m","e","n","t","s"," ","t","o"," ","t","h","e"," ","s","y","s","t","e","m"," ","f","u","n","c","t","i","o","n","a","l","i","t","y"," ","a","n","d"," ","u","s","e","r"," ","e","x","p","e","r","i","e","n","c","e",".">>
        /\ analysis.project_name = <<"L","i","b","r","a","r","y"," ","M","a","n","a","g","e","m","e","n","t"," ","S","y","s","t","e","m">>
        /\ analysis.release_date = <<"N","o","v","e","m","b","e","r"," ","0","6",","," ","2","0","2","6">>

\* the empty record carries a summary and a project name of its own
C15_OwnDefaults ==
    /\ pc = "returned"
    /\ content_given
    /\ content = <<>>
    /\ analysis.title = <<"R","e","l","e","a","s","e"," ","D","o","c","u","m","e","n","t","a","t","i","o","n">>
    /\ analysis.summary = <<"N","o"," ","c","o","n","t","e","n","t"," ","a","v","a","i","l","a","b","l","e"," ","f","o","r"," ","a","n","a","l","y","s","i","s",".">>
    /\ analysis.project_name = <<"P","r","o","j","e","c","t">>
    /\ analysis.release_date = <<"N","o","v","e","m","b","e","r"," ","0","6",","," ","2","0","2","6">>

\* C17: producing a record never invokes the object-store client, and
\* mr_count is not obtained by the engine during the call.
C17_NoStoreAccess ==
    pc = "returned" =>
        /\ "storage.Client" \notin called
        /\ "count_mrs_in_release" \notin called

\* a call that lists the store and counts two descriptors
C17_StoreListed ==
    /\ pc = "returned"
    /\ NonEmptyContent
    /\ store_up
    /\ "storage.Client" \in called
    /\ analysis.mr_count = 2

\* C20: in every record returned for non-empty text, release_type = Feature
\* Release implies features_count > 3, and when the version is not a major
\* version features_count > 3 implies release_type = Feature Release.
C20_TypeAgreesWithCount ==
    (pc = "returned" /\ NonEmptyContent) =>
        /\ analysis.release_type = "Feature Release" => analysis.features_count > 3
        /\ (release_version \notin MajorLabels /\ analysis.features_count > 3) =>
               analysis.release_type = "Feature Release"

\* four keyword matches and nothing else under v2.1
C20_FourFeatures ==
    /\ pc = "returned"
    /\ release_version = <<"v","2",".","1">>
    /\ analysis.features_count = 4
    /\ ~MentionsMaintenance(content)
    /\ analysis.release_type = "Feature Release"

\* C16: two calls of analyze_release_content with the same text and version
\* label return identical records, in the same or in different processes and
\* whatever happens between them, technical_highlights included.
C16_SameInputSameRecord ==
    (pc = "returned" /\ previous # NoRecord) => analysis = previous.record

\* the same text analysed by two processes while the store stays reachable:
\* the records differ in technical_highlights alone
C16_HighlightsDifferAcrossProcesses ==
    /\ pc = "returned"
    /\ previous # NoRecord
    /\ previous.store_up /\ store_up
    /\ previous.hash_seed # hash_seed
    /\ Cardinality(HighlightSet(content)) > 5
    /\ analysis.technical_highlights # previous.record.technical_highlights
    /\ analysis = [previous.record EXCEPT
                       !.technical_highlights = analysis.technical_highlights]

\* C16 within one process and one state of the object store
C16_HoldsInOneProcess ==
    (/\ pc = "returned"
     /\ previous # NoRecord
     /\ previous.hash_seed = hash_seed
     /\ previous.store_up = store_up) => analysis = previous.record

---------------------------------------------------------------------------
(* Properties of _calculate_complexity_score                               *)

\* the whitespace-delimited tokens of a text, counted by where they end
WordCount(text) ==
    Cardinality({i \in 1..Len(text) :
        /\ text[i] \notin SpaceChars
        /\ (i = Len(text) \/ text[i + 1] \in SpaceChars)})

\* C6: for every non-empty document complexity_score is High when
\* word_count > 1000 or technical_count > 10, otherwise Medium when
\* word_count > 500 or technical_count > 5, otherwise Low; word_count is the
\* number of whitespace-delimited tokens and technical_count the size of the
\* technical-highlights result.
C6_ScoreByThresholds ==
    pc = "returned" =>
        LET word_count == WordCount(content)
            technical_count == Len(extract_technical_highlights(content, hash_seed))
        IN  /\ analysis.complexity_score \in {"Low", "Medium", "High"}
            /\ analysis.complexity_score =
                   IF word_count > 1000 \/ technical_count > 10 THEN "High"
                   ELSE IF word_count > 500 \/ technical_count > 5 THEN "Medium"
                   ELSE "Low"

\* a document of exactly 1000 words, scored Medium
C6_ThousandWords ==
    /\ pc = "returned"
    /\ WordCount(content) = 1000
    /\ analysis.complexity_score = "Medium"

\* C7: the technical_count used by the scoring never exceeds 5:
\* complexity_score is High exactly when word_count > 1000, Medium exactly
\* when 500 < word_count <= 1000 and Low exactly when word_count <= 500,
\* whatever technical terms the text contains.
C7_ScoreByWordsAlone ==
    pc = "returned" =>
        LET word_count == WordCount(content)
        IN  /\ Len(extract_technical_highlights(content, hash_seed)) <= 5
            /\ analysis.complexity_score = "High" <=> word_count > 1000
            /\ analysis.complexity_score = "Medium" <=>
                   (500 < word_count /\ word_count <= 1000)
            /\ analysis.complexity_score = "Low" <=> word_count <= 500

\* a short document with more than five distinct terms, scored Low
C7_ManyTermsLow ==
    /\ pc = "returned"
    /\ Cardinality(HighlightSet(content)) > 5
    /\ WordCount(content) <= 500
    /\ analysis.complexity_score = "Low"

---------------------------------------------------------------------------
(* Properties of _extract_title and _extract_summary                       *)

\* C8: title extraction is idempotent: the title extracted from the heading
\* line '# ' followed by an extracted title t is t again.
C8_TitleIdempotent ==
    pc = "retitled" => analysis.again = analysis.title

\* the document "##": its title is empty, and the title of "# " is the default
C8_EmptyTitleNotKept ==
    /\ pc = "retitled"
    /\ content = <<"#","#">>
    /\ analysis.title = <<>>
    /\ analysis.again = <<"R","e","l","e","a","s","e"," ","D","o","c","u","m","e","n","t","a","t","i","o","n">>

\* a trimmed line of one or more heading markers followed by non-empty text
HasHeadingText(line) ==
    LET s == Strip(line)
    IN  /\ s # <<>>
        /\ s[1] = "#"
        /\ \E i \in 1..Len(s) : s[i] # "#"

\* the title as C9 describes it
ClaimedTitle(text) ==
    LET lines == SplitLines(text)
        headings == {i \in 1..Len(lines) : HasHeadingText(lines[i])}
    IN  IF headings = {} THEN <<"R","e","l","e","a","s","e"," ","D","o","c","u","m","e","n","t","a","t","i","o","n">>
        ELSE StripHeadingPrefix(Strip(lines[Min(headings)]))

\* C9: the title is the first line, top to bottom, whose trimmed form is one
\* or more heading markers followed by non-empty text, with the marker prefix
\* removed, so it is never empty; a line of heading markers only is skipped;
\* when there is no such line the title is "Release Documentation".
C9_TitleIsFirstHeadingWithText ==
    pc = "title" =>
        /\ analysis.title = ClaimedTitle(content)
        /\ analysis.title # <<>>

\* a line of two markers and nothing else is taken as the title line
C9_MarkersOnlyTaken ==
    /\ pc = "title"
    /\ content = <<"#","#","\n">>
    /\ analysis.title = <<>>
    /\ ClaimedTitle(content) = <<"R","e","l","e","a","s","e"," ","D","o","c","u","m","e","n","t","a","t","i","o","n">>

\* a trimmed line of more than 50 characters that starts with none of # - * >
Qualifies(line) ==
    LET s == Strip(line)
    IN  Len(s) > 50 /\ s[1] \notin {"#", "-", "*", ">"}

\* C10: the summary is the trimmed form of the first line, in document order,
\* whose trimmed length exceeds 50 characters and which starts with neither a
\* heading marker, a bullet marker (- or *) nor a blockquote marker (>); a
\* line of 50 characters or fewer is never returned; when no line qualifies
\* the fixed generic sentence is returned.
C10_SummaryIsFirstLongLine ==
    pc = "summary" =>
        LET lines == SplitLines(content)
            long == {i \in 1..Len(lines) : Qualifies(lines[i])}
        IN  /\ analysis.summary =
                   IF long = {}
                   THEN <<"T","h","i","s"," ","r","e","l","e","a","s","e"," ","i","n","t","r","o","d","u","c","e","s"," ","e","n","h","a","n","c","e","m","e","n","t","s"," ","t","o"," ","t","h","e"," ","s","y","s","t","e","m"," ","f","u","n","c","t","i","o","n","a","l","i","t","y"," ","a","n","d"," ","u","s","e","r"," ","e","x","p","e","r","i","e","n","c","e",".">>
                   ELSE Strip(lines[Min(long)])
            /\ long # {} => Len(analysis.summary) > 50

\* a first line of exactly 50 characters is passed over for the line after it
C10_FiftyPassedOver ==
    /\ pc = "summary"
    /\ content = LongWord \o <<"\n">> \o LongLine
    /\ analysis.summary = LongLine

---------------------------------------------------------------------------
(* Properties of _count_features and _count_section_items                  *)

\* a line that starts with a heading marker
IsHeading(line) == line # <<>> /\ line[1] = "#"

\* a heading line whose text is the given name
IsHeadingNamed(line, name) ==
    IsHeading(line) /\ StripHeadingPrefix(Strip(line)) = name

\* a bullet line (- or *) or a numbered-list line, indented or not
IsItemLine(line) ==
    LET a == SkipSpace(line, 1)
        d == SkipDigits(line, a)
    IN  \/ /\ a + 1 <= Len(line)
           /\ line[a] \in {"-", "*"}
           /\ line[a + 1] \in SpaceChars
        \/ /\ d > a
           /\ d + 1 <= Len(line)
           /\ line[d] = "."
           /\ line[d + 1] \in SpaceChars

\* the item lines between the first heading with the name and the next
\* heading line, or the end of the document
ItemsUnder(lines, name) ==
    LET named == {i \in 1..Len(lines) : IsHeadingNamed(lines[i], name)}
    IN  IF named = {} THEN 0
        ELSE LET h == Min(named)
                 later == {i \in (h + 1)..Len(lines) : IsHeading(lines[i])}
                 stop == IF later = {} THEN Len(lines) + 1 ELSE Min(later)
             IN  Cardinality({i \in (h + 1)..(stop - 1) : IsItemLine(lines[i])})

\* S of C11 for the feature headers
ClaimedSectionItems(text) ==
    LET lines == SplitLines(Lower(text))
    IN  ItemsUnder(lines, <<"n","e","w"," ","f","e","a","t","u","r","e","s">>) + ItemsUnder(lines, <<"f","e","a","t","u","r","e","s">>)
        + ItemsUnder(lines, <<"a","d","d","i","t","i","o","n","s">>)

\* every run of '#', blanks and a feature header name in the text is a
\* heading line of exactly that name
OnlyExactHeadings(text) ==
    LET lower == Lower(text)
        lines == SplitLines(lower)
    IN  \A k \in 1..Len(FeatureSections) :
            SectionStart(lower, FeatureSections[k]) > 0 =>
                \E i \in 1..Len(lines) :
                    /\ IsHeadingNamed(lines[i], FeatureSections[k])
                    /\ \A j \in 1..(i - 1) :
                           SectionStart(lines[j], FeatureSections[k]) = 0

\* C11: for a non-empty document features_count = max(1, K + S), K the
\* number of feature keyword-pattern matches in the lowercased text and S the
\* number of bullet and numbered-list lines between the first heading with a
\* candidate name and the next heading line or the end of the document,
\* summed over the names new features, features, additions; a Features
\* heading followed by two bullets gives features_count = 2 and, under v2.1,
\* Standard Release.
C11_FeaturesAreKeywordsPlusSectionItems ==
    pc = "typed" =>
        /\ analysis.features_count =
               Max2(1, SumKeywordMatches(Lower(content), 1) + ClaimedSectionItems(content))
        /\ content = <<"#","#"," ","F","e","a","t","u","r","e","s","\n","-"," ","a","\n","-"," ","a","\n">> =>
               /\ analysis.features_count = 2
               /\ analysis.release_type = "Standard Release"

\* a heading that only begins with the name: its two bullets are counted
C11_OverviewItemsCounted ==
    /\ pc = "typed"
    /\ content = <<"#","#"," ","F","e","a","t","u","r","e","s"," ","O","v","e","r","v","i","e","w","\n","-"," ","a","\n","-"," ","a","\n">>
    /\ ClaimedSectionItems(content) = 0
    /\ analysis.features_count = 2

\* C11 on the documents in which every heading found by the search is a
\* heading line of exactly the name searched for
C11_HoldsUnderExactHeadings ==
    (pc = "typed" /\ OnlyExactHeadings(content)) =>
        analysis.features_count =
            Max2(1, SumKeywordMatches(Lower(content), 1) + ClaimedSectionItems(content))

\* C12: section-item counting uses a heading only when the heading line's
\* text equals the candidate header name: when no line of the document is
\* such a heading, no section items are counted.
C12_OnlyExactHeadingsCount ==
    (pc = "sections" /\
     \A k \in 1..Len(FeatureSections) :
        \A i \in 1..Len(SplitLines(Lower(content))) :
            ~IsHeadingNamed(SplitLines(Lower(content))[i], FeatureSections[k])) =>
        analysis.section_items = 0

\* '#features' inside a sentence opens a section
C12_InlineMarkerCounted ==
    /\ pc = "sections"
    /\ content = <<"s","e","e"," ","#","f","e","a","t","u","r","e","s","\n","-"," ","a","\n">>
    /\ analysis.section_items = 1

\* the verb+noun phrases of C13: 'new feature', and add, introduce and
\* implement, base and past tense, before feature, functionality, capability
FeaturePhrases ==
    {<<"n","e","w"," ","f","e","a","t","u","r","e">>} \cup
    {verb \o <<" ">> \o noun :
        verb \in {<<"a","d","d">>, <<"a","d","d","e","d">>, <<"i","n","t","r","o","d","u","c","e">>, <<"i","n","t","r","o","d","u","c","e","d">>,
                  <<"i","m","p","l","e","m","e","n","t">>, <<"i","m","p","l","e","m","e","n","t","e","d">>},
        noun \in {<<"f","e","a","t","u","r","e">>, <<"f","u","n","c","t","i","o","n","a","l","i","t","y">>, <<"c","a","p","a","b","i","l","i","t","y">>}}

PhraseOccurrences(text) ==
    Cardinality({i \in 1..Len(text) :
                    \E phrase \in FeaturePhrases : MatchAt(Lower(text), i, phrase)})

\* C13: every occurrence in the text of a feature verb+noun phrase adds one
\* to the keyword signal of features_count, so features_count is at least
\* the number of these occurrences.
C13_EveryPhraseCounts ==
    pc = "features" => analysis.features_count >= PhraseOccurrences(content)

\* two past-tense phrases of which only 'introduced feature' is counted
C13_AddedNotCounted ==
    /\ pc = "features"
    /\ content = <<"a","d","d","e","d"," ","c","a","p","a","b","i","l","i","t","y","\n","i","n","t","r","o","d","u","c","e","d"," ","f","e","a","t","u","r","e","\n">>
    /\ analysis.features_count = 1

---------------------------------------------------------------------------
(* Properties of _extract_project_name and _extract_release_date           *)

\* title-cased, with '-' and '_' replaced by blanks
Displayed(name) == SeparatorsToSpaces(Title(name))

\* the capture of pattern k in the lowercased text
ProjectCapture(k, text) ==
    Slice(Lower(text), ProjectSearch(k, Lower(text)).start,
          ProjectSearch(k, Lower(text)).stop)

\* C18: the project name is the capture of the first pattern, in the order
\* 'library management system', 'demo-project', word[-_]word before
\* project/system/platform, 'project:'/'system:' label, that matches anywhere
\* in the lowercased text, wherever each phrase lies, title-cased with '-'
\* and '_' replaced by spaces; with no match it is 'Library Management
\* System'.
C18_FirstPatternInListWins ==
    pc = "project" =>
        analysis.project_name =
            IF Contains(Lower(content), <<"l","i","b","r","a","r","y"," ","m","a","n","a","g","e","m","e","n","t"," ","s","y","s","t","e","m">>)
            THEN <<"L","i","b","r","a","r","y"," ","M","a","n","a","g","e","m","e","n","t"," ","S","y","s","t","e","m">>
            ELSE IF Contains(Lower(content), <<"d","e","m","o","-","p","r","o","j","e","c","t">>)
            THEN <<"D","e","m","o"," ","P","r","o","j","e","c","t">>
            ELSE IF ProjectSearch(3, Lower(content)).start > 0
            THEN Displayed(ProjectCapture(3, content))
            ELSE IF ProjectSearch(4, Lower(content)).start > 0
            THEN Displayed(ProjectCapture(4, content))
            ELSE <<"L","i","b","r","a","r","y"," ","M","a","n","a","g","e","m","e","n","t"," ","S","y","s","t","e","m">>

\* a label and a compound name lie before 'demo-project', which is returned
C18_LaterPhraseWins ==
    /\ pc = "project"
    /\ content = <<"S","y","s","t","e","m",":"," ","c","o","r","e","-","a","p","i"," ","m","y","_","a","p","p"," ","p","l","a","t","f","o","r","m"," ","d","e","m","o","-","p","r","o","j","e","c","t"," ">>
    /\ analysis.project_name = <<"D","e","m","o"," ","P","r","o","j","e","c","t">>

\* C19: the release date is the matched substring, unmodified, of the first
\* pattern, in the order month-name day year, D/M/Y or D-M-Y, Y/M/D or
\* Y-M-D, that matches anywhere in the raw text; a month-name date is
\* returned even when a numeric date lies before it; with no match it is the
\* current date as 'Month DD, YYYY'.
C19_FirstDatePatternInListWins ==
    pc = "date" =>
        LET found == {k \in 1..3 : DateSearch(k, content) # <<>>}
        IN  /\ found = {} => analysis.release_date = <<"N","o","v","e","m","b","e","r"," ","0","6",","," ","2","0","2","6">>
            /\ found # {} =>
                   /\ analysis.release_date = DateSearch(Min(found), content)
                   /\ Contains(content, analysis.release_date)
            /\ 1 \in found =>
                   \E m \in 1..Len(MonthNames) :
                       StartsWith(Lower(analysis.release_date), Lower(MonthNames[m]))

\* two numeric dates lie before the month-name date, which is returned as
\* written
C19_MonthNameAfterNumeric ==
    /\ pc = "date"
    /\ content = <<"1","/","2","/","2","0","2","4"," ","2","0","2","4","-","0","1","-","1","5"," ","M","A","R","C","H"," ","0","5"," ","2","0","2","3"," ">>
    /\ analysis.release_date = <<"M","A","R","C","H"," ","0","5"," ","2","0","2","3">>

---------------------------------------------------------------------------
(* Properties of analyze_mr_content                                        *)

MrTypes == {"Feature", "Bug Fix", "Improvement", "Other"}
Mentions(text, words) == \E w \in words : Contains(Lower(text), w)

\* C21: analyze_mr_content classifies the type in fixed priority, first
\* match wins: Feature when the lowercased text contains feature, new or
\* add; otherwise Bug Fix when it contains fix, bug or issue; otherwise
\* Improvement when it contains refactor, improve or optimize; otherwise
\* Other.  The type is always one of these four values.
C21_MrTypeInFixedPriority ==
    pc = "mr_analyzed" =>
        LET feature == Mentions(content, {<<"f","e","a","t","u","r","e">>, <<"n","e","w">>, <<"a","d","d">>})
            bugfix == Mentions(content, {<<"f","i","x">>, <<"b","u","g">>, <<"i","s","s","u","e">>})
            improvement == Mentions(content, {<<"r","e","f","a","c","t","o","r">>, <<"i","m","p","r","o","v","e">>, <<"o","p","t","i","m","i","z","e">>})
        IN  /\ analysis.type \in MrTypes
            /\ feature => analysis.type = "Feature"
            /\ ~feature /\ bugfix => analysis.type = "Bug Fix"
            /\ ~feature /\ ~bugfix /\ improvement => analysis.type = "Improvement"
            /\ ~feature /\ ~bugfix /\ ~improvement => analysis.type = "Other"

\* a description with both add and fix has been classified as Feature
C21_AddAndFixIsFeature ==
    /\ pc = "mr_analyzed"
    /\ Mentions(content, {<<"a","d","d">>})
    /\ Mentions(content, {<<"f","i","x">>})
    /\ analysis.type = "Feature"

---------------------------------------------------------------------------
(* Properties of get_mrs_for_release and parse_mr_filename                 *)

FileNames == [i \in 1..Len(blobs) |-> LastSegment(blobs[i])]
FollowsConvention(f) ==
    MrNumberForm(f).matched \/ TimestampForm(f).matched \/ GenericForm(f).matched
ListedAs(f) == {j \in 1..Len(analysis.mrs) : analysis.mrs[j].filename = f}
ZeroPadded(number) == [i \in 1..(3 - Len(number)) |-> "0"] \o number

\* C22: a file named mr<number>_<hex sha>.json gets a descriptor whose
\* display_name is 'MR #<number> (<first 8 sha characters>)' with a
\* zero-padded numeric sort_key, so every such file of the release folder is
\* in the list get_mrs_for_release returns and is counted in mr_count; the
\* three naming conventions are tried in order and only a file name matching
\* none of them is dropped.
C22_EveryConventionListed ==
    (pc = "listed" /\ store_up) =>
        /\ \A i \in 1..Len(blobs) :
               FollowsConvention(FileNames[i]) <=> ListedAs(FileNames[i]) # {}
        /\ \A i \in 1..Len(blobs) :
               MrNumberForm(FileNames[i]).matched =>
                   \E j \in ListedAs(FileNames[i]) :
                       /\ analysis.mrs[j].display_name =
                              <<"M","R"," ","#">> \o MrNumberForm(FileNames[i]).mr_number \o <<" ","(">>
                              \o Take(MrNumberForm(FileNames[i]).sha, ShortShaLen) \o <<")">>
                       /\ analysis.mrs[j].sort_key =
                              ZeroPadded(MrNumberForm(FileNames[i]).mr_number)
        /\ Len(analysis.mrs) =
               Cardinality({i \in 1..Len(blobs) : FollowsConvention(FileNames[i])})
        /\ count_mrs_in_release(store_up, blobs).value = Len(analysis.mrs)

\* a folder holds a file of the mr-number form and a file of the timestamp
\* form; the store is reachable, and the list holds the second file alone
C22_MrNumberFileDropped ==
    /\ pc = "listed"
    /\ store_up
    /\ Len(blobs) = 2
    /\ MrNumberForm(FileNames[1]).matched
    /\ TimestampForm(FileNames[2]).matched
    /\ ListedAs(FileNames[1]) = {}
    /\ Len(analysis.mrs) = 1
    /\ analysis.mrs[1].filename = FileNames[2]
    /\ count_mrs_in_release(store_up, blobs).value = 1

\* C22, the two other conventions: a file that is not of the mr-number form
\* is listed exactly when it is of the timestamp form or holds 8 hex
\* characters in a row, the timestamp form is tried first, and the list is
\* in descending order of sort_key
C22_OtherConventionsListed ==
    (pc = "listed" /\ store_up) =>
        /\ \A i \in 1..Len(blobs) :
               ~MrNumberForm(FileNames[i]).matched =>
                   /\ FollowsConvention(FileNames[i]) <=> ListedAs(FileNames[i]) # {}
                   /\ \A j \in ListedAs(FileNames[i]) :
                          analysis.mrs[j].kind =
                              IF TimestampForm(FileNames[i]).matched THEN "timestamp"
                              ELSE "generic"
        /\ \A j \in 1..(Len(analysis.mrs) - 1) :
               ~StrLess(analysis.mrs[j].sort_key, analysis.mrs[j + 1].sort_key)

=============================================================================
